---- MODULE Spec2Model ----
(***************************************************************************)
(* Lang-Monitor, scripts/check_updates.py: the polling change detector.    *)
(*                                                                         *)
(* One run of main() is: load config and state file, check_for_updates     *)
(* (one latest-commit fetch per listed path, compared with the stored      *)
(* sha), save the state file, notify by email and Microsoft To Do, exit.   *)
(* The model follows a bounded number of consecutive runs against the same *)
(* state file.  The remote repository and the notification transports are  *)
(* the environment: every fetch and every send picks its outcome freely.   *)
(* An uncaught Python exception ends the process with exit status 1.       *)
(***************************************************************************)
EXTENDS Integers, Sequences, FiniteSets, TLC

\* ------------------------------------------------------------------ bounds
MaxRuns == 2
MaxMonitors == 2
MaxRequests == 3

\* ------------------------------------------------------------- input space
Shas == {"aaa1111", "bbb2222"}

\* what get_path_commits can hand back: (None, error), ([], None) or a
\* one-element commit list, of which only the sha is compared
FetchResults == {"error", "empty"} \cup Shas

\* A monitor entry of config/monitors.json.  hasRepo / hasBranch say whether
\* the JSON object carries the field at all; enabled is the value of
\* monitor.get('enabled', True); paths is monitor.get('paths', []).
\* pathsGlob, pathsRegex and template are further fields an entry may carry
\* ("" for no template).
Mon(hasRepo, hasBranch, branch, enabled, paths) ==
    [hasRepo |-> hasRepo, repo |-> "o/r", hasBranch |-> hasBranch,
     branch |-> branch, enabled |-> enabled, paths |-> paths,
     pathsGlob |-> <<>>, pathsRegex |-> <<>>, template |-> ""]

\* an enabled entry with repo "o/r" and a branch, no paths of its own,
\* and the given pattern lists and template reference
MonX(branch, pathsGlob, pathsRegex, template) ==
    [hasRepo |-> TRUE, repo |-> "o/r", hasBranch |-> TRUE,
     branch |-> branch, enabled |-> TRUE, paths |-> <<>>,
     pathsGlob |-> pathsGlob, pathsRegex |-> pathsRegex,
     template |-> template]

\* config['templates']
Templates == [base |-> [branch |-> "main", paths |-> <<"g.txt">>]]

\* the file tree of o/r, the same on every branch
Tree == <<"f.txt", "g.txt">>

MonitorPool ==
    { Mon(TRUE,  FALSE, "",     TRUE,  <<"f.txt">>),
      Mon(TRUE,  TRUE,  "main", TRUE,  <<"f.txt">>),
      Mon(TRUE,  TRUE,  "main", TRUE,  <<"f.txt", "f.txt">>),
      Mon(TRUE,  TRUE,  "main", TRUE,  <<"g.txt">>),
      Mon(TRUE,  TRUE,  "main", FALSE, <<"f.txt">>),
      Mon(FALSE, TRUE,  "main", TRUE,  <<"g.txt">>),
      Mon(FALSE, TRUE,  "main", FALSE, <<"g.txt">>),
      MonX("dev", <<"f.*">>, <<"^g">>, "base") }

SeqsUpTo(S, n) == UNION { [1..k -> S] : k \in 0..n }

\* config['monitors'] : every list of at most MaxMonitors pool entries
Configs == SeqsUpTo(MonitorPool, MaxMonitors)

\* ------------------------------------------------------------ state file
NoEntries == [k \in {} |-> 0]

\* the Python dict {} as a state object
EmptyState == [hasMonitors |-> FALSE, monitors |-> NoEntries, last_check |-> 0]

\* data/state.json does not exist
FileMissing == [kind |-> "missing", data |-> EmptyState]
\* exists, but json.load raises JSONDecodeError (an empty file is one)
FileCorrupt == [kind |-> "corrupt", data |-> EmptyState]
\* holds the JSON text of the state object d
FileOf(d) == [kind |-> "json", data |-> d]

\* a state file left by an earlier run (at time 0) that saw f.txt at aaa1111
OldEntries ==
    [k \in {"o/r:main:f.txt"} |->
        [last_sha |-> "aaa1111", last_check |-> 0, path |-> "f.txt",
         repo |-> "o/r", branch |-> "main"]]
OldState == [hasMonitors |-> TRUE, monitors |-> OldEntries, last_check |-> 0]

\* what the GITHUB_OUTPUT file of a workflow step holds when main() starts
OutputBefore == << "step=check" >>

\* the state file has been neither read nor written
NoIO == [reads |-> 0, writes |-> 0]

VARIABLES
    config,          \* config['monitors'], fixed over the runs
    file,            \* contents of data/state.json
    run,             \* number of the current run; also the value of utcnow()
    pc,              \* position of main()
    state,           \* the dict `state` of main()
    monitors_state,  \* the dict `monitors_state` of check_for_updates
    updates,         \* the list `updates`
    mi,              \* index of the monitor being checked
    pi,              \* index of the path being checked, 0 at a monitor's head
    exitCode,        \* process exit status, -1 while running
    prior,           \* history: monitors_state when the pass began
    fetches,         \* history: WatchKey -> its fetches of this run
    emailTried,      \* history: send_email was called this run
    todoTried,       \* history: create_todo_tasks was called this run
    sendFailed,      \* history: a notification channel failed this run
    prevQuiet,       \* history: the entries of the keys for which the
                     \* previous run's pass saw no remote change
    output,          \* the lines of the file named by GITHUB_OUTPUT
    io,              \* history: reads and writes of the state file this run
    lastId,          \* history: WatchKey -> the identifier last reported for
                     \* it by a saved run: the new_sha of its latest event,
                     \* or its first-observation baseline
    notified,        \* history: a notification channel succeeded this run
    prevUnnotified   \* history: WatchKey -> new_sha of the changes that the
                     \* previous run saved and failed to notify

\* get_ms_token.py: the main thread, the callback server thread and the
\* clients of localhost:8400
VARIABLES
    tpc,             \* position of main() of get_ms_token.py
    spc,             \* position of the thread running start_callback_server
    client_id,       \* what input() returned, stripped
    server_ready,    \* the threading.Event server_ready is set
    auth_code,       \* the global auth_code, "" for None
    browser,         \* webbrowser.open was called
    pending,         \* requests sent to the port and not yet accepted
    sent,            \* number of requests sent so far
    handled,         \* history: the requests the server accepted, in order
    exchanged,       \* history: get_tokens was called
    texit            \* exit status of get_ms_token.py, -1 while running

\* the variables of check_updates.py
mvars == <<config, file, run, pc, state, monitors_state, updates, mi, pi,
           exitCode, prior, fetches, emailTried, todoTried, sendFailed,
           prevQuiet, output, io, lastId, notified, prevUnnotified>>

\* the variables of get_ms_token.py
tvars == <<tpc, spc, client_id, server_ready, auth_code, browser, pending,
           sent, handled, exchanged, texit>>

vars == <<mvars, tvars>>

\* get_ms_token.py is not running: lines 31-32 at import
TokenIdle ==
    /\ tpc = "input"
    /\ spc = "unstarted"
    /\ client_id = ""
    /\ server_ready = FALSE
    /\ auth_code = ""
    /\ browser = FALSE
    /\ pending = <<>>
    /\ sent = 0
    /\ handled = <<>>
    /\ exchanged = FALSE
    /\ texit = -1

\* ---------------------------------------------------------------- helpers
utcnow == run

load_json_file(f) ==
    IF f.kind = "missing" THEN EmptyState          \* FileNotFoundError
    ELSE IF f.kind = "corrupt" THEN EmptyState     \* JSONDecodeError
    ELSE f.data

generate_monitor_key(monitor, path) ==
    monitor.repo \o ":" \o monitor.branch \o ":" \o path

\* the key of an update event, rebuilt from its repo, branch and path
EventKey(e) == e.repo \o ":" \o e.branch \o ":" \o e.path

\* dict.get(key, {}).get('last_sha'): "" stands for None
previous_sha_of(ms, key) ==
    IF key \in DOMAIN ms THEN ms[key].last_sha ELSE ""

SnapshotEntry(sha, path, repo, branch) ==
    [last_sha |-> sha, last_check |-> utcnow, path |-> path,
     repo |-> repo, branch |-> branch]

\* a variant that keeps nothing but the entry it stores
Put_only(ms, key, entry) == [k \in {key} |-> entry]

Put(ms, key, entry) ==
    [k \in DOMAIN ms \cup {key} |-> IF k = key THEN entry ELSE ms[k]]

\* a variant that reports the two identifiers the wrong way round
UpdateEvent_swapped(repo, branch, path, old, new) ==
    [name |-> repo, repo |-> repo, branch |-> branch, path |-> path,
     old_sha |-> new, new_sha |-> old]

UpdateEvent(repo, branch, path, old, new) ==
    [name |-> repo, repo |-> repo, branch |-> branch, path |-> path,
     old_sha |-> old, new_sha |-> new]

\* a variant that rewrites the entry on every successful check
record_check_refresh(ms, key, r, entry) == Put(ms, key, entry)

\* a variant that records a first observation and never a later change
record_check_nostore(ms, key, r, entry) ==
    IF previous_sha_of(ms, key) = "" THEN Put(ms, key, entry) ELSE ms

\* check_for_updates, lines 145-182: what the comparison of the fetched
\* sha r with the stored one does to monitors_state
record_check(ms, key, r, entry) ==
    IF previous_sha_of(ms, key) = "" THEN Put(ms, key, entry)      \* 147-155
    ELSE IF previous_sha_of(ms, key) # r THEN Put(ms, key, entry)  \* 156-180
    ELSE ms                                                        \* 181-182

\* a variant that skips on an error only and takes an empty commit list
\* for a commit
is_skipped_error_only(r) == r = "error"

\* check_for_updates, lines 130-136: `if error: continue` and
\* `if not commits: continue`
is_skipped(r) == r \in {"error", "empty"}

\* the history of fetches, extended by one result for key: the number of
\* fetches issued for the key and the set of shas they returned
Fetched(fs, key, r) ==
    LET old == IF key \in DOMAIN fs THEN fs[key] ELSE [n |-> 0, shas |-> {}]
    IN  [k \in DOMAIN fs \cup {key} |->
            IF k = key
            THEN [n |-> old.n + 1, shas |-> old.shas \cup ({r} \cap Shas)]
            ELSE fs[k]]

\* the shas that the fetches of key returned in this run
Succ(k) == IF k \in DOMAIN fetches THEN fetches[k].shas ELSE {}

\* the number of latest-commit fetches issued for key in this run
FetchCount(k) == IF k \in DOMAIN fetches THEN fetches[k].n ELSE 0

\* the number of update events of this run for key k
EventsFor(k) == Cardinality({ i \in DOMAIN updates : EventKey(updates[i]) = k })

\* check_for_updates went through every monitor
PassComplete == mi > Len(config)

\* the keys stored before this pass for which the pass is complete and every
\* fetch that returned a commit returned the stored sha
QuietKeys ==
    { k \in DOMAIN prior :
        PassComplete /\ Succ(k) = {prior[k].last_sha} }

\* ------------------------------------------------------------------- Init
Init ==
    /\ config \in Configs
    /\ file \in {FileMissing, FileOf(OldState)}
    /\ run = 1
    /\ pc = "start"
    /\ state = EmptyState
    /\ monitors_state = NoEntries
    /\ updates = <<>>
    /\ mi = 0
    /\ pi = 0
    /\ exitCode = -1
    /\ prior = NoEntries
    /\ fetches = NoEntries
    /\ emailTried = FALSE
    /\ todoTried = FALSE
    /\ sendFailed = FALSE
    /\ prevQuiet = NoEntries
    /\ output = OutputBefore
    /\ io = NoIO
    /\ lastId = [k \in DOMAIN load_json_file(file).monitors |->
                    load_json_file(file).monitors[k].last_sha]
    /\ notified = FALSE
    /\ prevUnnotified = NoEntries
    /\ TokenIdle

\* an uncaught exception: traceback, exit status 1, nothing else happens
Raise ==
    /\ pc' = "exited"
    /\ exitCode' = 1

\* ---------------------------------------------------------------- actions
\* main(), lines 742-748 and the entry of check_for_updates, lines 108-109
LoadFiles ==
    /\ pc = "start"
    /\ state' = load_json_file(file)
    /\ IF Len(config) = 0
       THEN /\ pc' = "exited"
            /\ exitCode' = 1
            /\ UNCHANGED <<monitors_state, prior, mi>>
       ELSE /\ pc' = "check"
            /\ monitors_state' = state'.monitors
            /\ prior' = state'.monitors
            /\ mi' = 1
            /\ UNCHANGED exitCode
    /\ io' = [io EXCEPT !.reads = @ + 1]
    /\ UNCHANGED <<tvars, config, file, run, updates, pi, fetches, emailTried,
                   todoTried, sendFailed, prevQuiet, output, lastId, notified,
                   prevUnnotified>>

\* a variant that checks a monitor whether it is enabled or not
MonitorHead_ignoring_enabled ==
    /\ pc = "check"
    /\ pi = 0
    /\ mi <= Len(config)
    /\ LET monitor == config[mi] IN
       IF ~monitor.hasRepo
       THEN Raise /\ UNCHANGED <<mi, pi>>
       ELSE IF Len(monitor.paths) = 0
            THEN mi' = mi + 1 /\ UNCHANGED <<pi, pc, exitCode>>
            ELSE pi' = 1 /\ UNCHANGED <<mi, pc, exitCode>>
    /\ UNCHANGED <<tvars, config, file, run, state, monitors_state, updates, prior,
                   fetches, emailTried, todoTried, sendFailed, prevQuiet,
                   output, io, lastId, notified, prevUnnotified>>

\* check_for_updates, lines 111-121: the head of one iteration over monitors
MonitorHead ==
    /\ pc = "check"
    /\ pi = 0
    /\ mi <= Len(config)
    /\ LET monitor == config[mi] IN
       IF ~monitor.enabled
       THEN \* line 113 evaluates monitor['repo'] for the log line
            IF ~monitor.hasRepo
            THEN Raise /\ UNCHANGED <<mi, pi>>
            ELSE mi' = mi + 1 /\ UNCHANGED <<pi, pc, exitCode>>
       ELSE IF ~monitor.hasRepo
            THEN Raise /\ UNCHANGED <<mi, pi>>                  \* line 116
            ELSE IF Len(monitor.paths) = 0
                 THEN mi' = mi + 1 /\ UNCHANGED <<pi, pc, exitCode>>
                 ELSE pi' = 1 /\ UNCHANGED <<mi, pc, exitCode>>
    /\ UNCHANGED <<tvars, config, file, run, state, monitors_state, updates, prior,
                   fetches, emailTried, todoTried, sendFailed, prevQuiet, output, io, lastId, notified, prevUnnotified>>

\* check_for_updates, lines 123-182: one iteration over a monitor's paths,
\* r being what get_path_commits returns for this path
CheckPath(r) ==
    /\ pc = "check"
    /\ pi >= 1
    /\ LET monitor == config[mi]
           path    == monitor.paths[pi]
           repo    == monitor.repo
           branch  == IF monitor.hasBranch THEN monitor.branch ELSE "main"
       IN
       IF ~monitor.hasBranch
       THEN \* generate_monitor_key reads monitor['branch'] : KeyError
            /\ Raise
            /\ UNCHANGED <<monitors_state, state, updates, fetches, mi, pi>>
       ELSE LET key == generate_monitor_key(monitor, path)
                previous_sha == previous_sha_of(monitors_state, key)
                entry == SnapshotEntry(r, path, repo, branch)
                ms == IF is_skipped(r) THEN monitors_state            \* 130-136
                      ELSE record_check(monitors_state, key, r, entry)
            IN
            /\ fetches' = Fetched(fetches, key, r)
            /\ monitors_state' = ms
            \* monitors_state is state['monitors'] itself when that exists
            /\ state' = IF state.hasMonitors
                        THEN [state EXCEPT !.monitors = ms] ELSE state
            /\ updates' = IF ~is_skipped(r) /\ previous_sha # ""
                             /\ previous_sha # r
                          THEN Append(updates,
                                 UpdateEvent(repo, branch, path, previous_sha, r))
                          ELSE updates
            /\ IF pi < Len(monitor.paths)
               THEN pi' = pi + 1 /\ UNCHANGED mi
               ELSE pi' = 0 /\ mi' = mi + 1
            /\ UNCHANGED <<pc, exitCode>>
    /\ UNCHANGED <<tvars, config, file, run, prior, emailTried, todoTried, sendFailed, prevQuiet, output, io, lastId, notified, prevUnnotified>>

\* check_for_updates, lines 184-187: the loop is over
EndCheck ==
    /\ pc = "check"
    /\ pi = 0
    /\ mi > Len(config)
    /\ state' = [hasMonitors |-> TRUE, monitors |-> monitors_state,
                 last_check |-> utcnow]
    /\ pc' = "save"
    /\ UNCHANGED <<tvars, config, file, run, monitors_state, updates, mi, pi,
                   exitCode, prior, fetches, emailTried, todoTried, sendFailed, prevQuiet, output, io, lastId, notified, prevUnnotified>>

\* the new_sha of the last update event of this run for key k
LastNew(k) ==
    LET is == { i \in DOMAIN updates : EventKey(updates[i]) = k }
    IN  updates[CHOOSE i \in is : \A j \in is : j <= i].new_sha

\* the identifiers reported once this run is saved: for a key with events
\* the new_sha of the last one, else what was reported before, else the
\* baseline the run recorded
Reported(ids) ==
    [k \in DOMAIN ids \cup DOMAIN monitors_state |->
        IF EventsFor(k) > 0 THEN LastNew(k)
        ELSE IF k \in DOMAIN ids THEN ids[k]
        ELSE monitors_state[k].last_sha]

\* a variant that also writes the state file once in the middle of the pass
SaveState_early ==
    /\ pc \in {"check", "save"}
    /\ io.writes = 0
    /\ file' = FileOf(state)
    /\ pc' = IF pc = "check" THEN "check"
             ELSE IF Len(updates) > 0 THEN "email" ELSE "output"
    /\ io' = [io EXCEPT !.writes = @ + 1]
    /\ lastId' = Reported(lastId)
    /\ UNCHANGED <<tvars, config, run, state, monitors_state, updates, mi, pi,
                   exitCode, prior, fetches, emailTried, todoTried, sendFailed,
                   prevQuiet, output, notified, prevUnnotified>>

\* main(), lines 760-766: save_json_file, then branch on `if updates`
SaveState ==
    /\ pc = "save"
    /\ file' = FileOf(state)
    /\ pc' = IF Len(updates) > 0 THEN "email" ELSE "output"
    /\ io' = [io EXCEPT !.writes = @ + 1]
    /\ lastId' = Reported(lastId)
    /\ UNCHANGED <<tvars, config, run, state, monitors_state, updates, mi, pi,
                   exitCode, prior, fetches, emailTried, todoTried, sendFailed,
                   prevQuiet, output, notified, prevUnnotified>>

EmailEnvs == {"unset", "incomplete", "complete"}
SmtpOutcomes == {"sent", "SMTPException", "OSError"}

\* send_email, lines 428-483, as called from main() line 771
send_email(env, outcome) ==
    IF env = "incomplete" THEN "false"
    ELSE IF outcome = "sent" THEN "true"
    ELSE IF outcome = "SMTPException" THEN "false"
    ELSE "raise"

\* a variant after which a failed send puts the state file back to what
\* the run read, so that the next run detects the change again
SendEmail_retrying(env, outcome) ==
    /\ pc = "email"
    /\ IF env = "unset"
       THEN /\ pc' = "todo"
            /\ UNCHANGED <<exitCode, emailTried, sendFailed, notified, file>>
       ELSE /\ emailTried' = TRUE
            /\ sendFailed' = (sendFailed \/ send_email(env, outcome) # "true")
            /\ notified' = (notified \/ send_email(env, outcome) = "true")
            /\ file' = IF send_email(env, outcome) # "true"
                       THEN FileOf([hasMonitors |-> TRUE, monitors |-> prior,
                                    last_check |-> utcnow])
                       ELSE file
            /\ IF send_email(env, outcome) = "raise"
               THEN Raise
               ELSE pc' = "todo" /\ UNCHANGED exitCode
    /\ UNCHANGED <<tvars, config, run, state, monitors_state, updates, mi, pi,
                   prior, fetches, todoTried, prevQuiet, output, io, lastId,
                   prevUnnotified>>

\* main(), lines 769-774
SendEmail(env, outcome) ==
    /\ pc = "email"
    /\ IF env = "unset"
       THEN /\ pc' = "todo"
            /\ UNCHANGED <<exitCode, emailTried, sendFailed, notified>>
       ELSE /\ emailTried' = TRUE
            /\ sendFailed' = (sendFailed \/ send_email(env, outcome) # "true")
            /\ notified' = (notified \/ send_email(env, outcome) = "true")
            /\ IF send_email(env, outcome) = "raise"
               THEN Raise
               ELSE pc' = "todo" /\ UNCHANGED exitCode
    /\ UNCHANGED <<tvars, config, file, run, state, monitors_state, updates, mi, pi,
                   prior, fetches, todoTried, prevQuiet, output, io, lastId,
                   prevUnnotified>>

TodoEnvs == {"unset", "set"}
TodoOutcomes == {"created", "no_token", "no_list", "none_created"}

\* create_todo_tasks, lines 694-723: every failure is caught and turned
\* into a False return
create_todo_tasks(outcome) == outcome = "created"

\* main(), lines 776-781
CreateTodo(env, outcome) ==
    /\ pc = "todo"
    /\ IF env = "unset"
       THEN UNCHANGED <<todoTried, sendFailed, notified>>
       ELSE /\ todoTried' = TRUE
            /\ sendFailed' = (sendFailed \/ ~create_todo_tasks(outcome))
            /\ notified' = (notified \/ create_todo_tasks(outcome))
    /\ pc' = "output"
    /\ UNCHANGED <<tvars, config, file, run, state, monitors_state, updates, mi, pi,
                   exitCode, prior, fetches, emailTried, prevQuiet, output, io,
                   lastId, prevUnnotified>>

OutputEnvs == {"unset", "set"}

\* a variant that reports updates whenever the list was computed
output_lines_always(ups) ==
    << "has_updates=true", "update_count=" \o ToString(Len(ups)) >>

\* main(), lines 786-788 and 800-802: the two lines written to GITHUB_OUTPUT
output_lines(ups) ==
    IF Len(ups) > 0
    THEN << "has_updates=true", "update_count=" \o ToString(Len(ups)) >>
    ELSE << "has_updates=false", "update_count=0" >>

\* main(), lines 783-806 and line 809: the GITHUB_OUTPUT lines (appended
\* when the variable is set), the summary, return 0, sys.exit(0)
Finish(env) ==
    /\ pc = "output"
    /\ output' = IF env = "set" THEN output \o output_lines(updates) ELSE output
    /\ pc' = "exited"
    /\ exitCode' = 0
    /\ UNCHANGED <<tvars, config, file, run, state, monitors_state, updates, mi, pi,
                   prior, fetches, emailTried, todoTried, sendFailed, prevQuiet,
                   io, lastId, notified, prevUnnotified>>

\* the scheduler starts the next run; the process starts from scratch
NextRun ==
    /\ pc = "exited"
    /\ run < MaxRuns
    /\ run' = run + 1
    /\ pc' = "start"
    /\ state' = EmptyState
    /\ monitors_state' = NoEntries
    /\ updates' = <<>>
    /\ mi' = 0
    /\ pi' = 0
    /\ exitCode' = -1
    /\ prior' = NoEntries
    /\ fetches' = NoEntries
    /\ emailTried' = FALSE
    /\ todoTried' = FALSE
    /\ sendFailed' = FALSE
    /\ prevQuiet' = [k \in QuietKeys |->
                        [before |-> prior[k], after |-> monitors_state[k],
                         events |-> EventsFor(k)]]
    /\ output' = OutputBefore
    /\ io' = NoIO
    /\ notified' = FALSE
    /\ prevUnnotified' =
          IF io.writes = 1 /\ sendFailed /\ ~notified
          THEN [k \in { EventKey(updates[i]) : i \in DOMAIN updates } |->
                    LastNew(k)]
          ELSE NoEntries
    /\ UNCHANGED <<tvars, config, file, lastId>>

\* before a run starts the state file is lost or truncated
LoseStateFile(f) ==
    /\ pc = "start"
    /\ file.kind = "json"
    /\ file' = f
    /\ lastId' = NoEntries
    /\ UNCHANGED <<tvars, config, run, pc, state, monitors_state, updates, mi, pi,
                   exitCode, prior, fetches, emailTried, todoTried, sendFailed,
                   prevQuiet, output, io, notified, prevUnnotified>>

\* the process is killed from outside at any point of a run: its memory
\* is gone, the files stay as they are
Kill ==
    /\ pc # "exited"
    /\ pc' = "exited"
    /\ exitCode' = 137
    /\ state' = EmptyState
    /\ monitors_state' = NoEntries
    /\ updates' = <<>>
    /\ mi' = 0
    /\ pi' = 0
    /\ prior' = NoEntries
    /\ fetches' = NoEntries
    /\ emailTried' = FALSE
    /\ todoTried' = FALSE
    /\ sendFailed' = FALSE
    /\ notified' = FALSE
    /\ prevQuiet' = NoEntries
    /\ prevUnnotified' = NoEntries
    /\ UNCHANGED <<tvars, config, file, run, output, io, lastId>>

\* the run was ended by a kill
Killed == exitCode = 137

Next ==
    \/ LoadFiles
    \/ MonitorHead
    \/ \E r \in FetchResults : CheckPath(r)
    \/ EndCheck
    \/ SaveState
    \/ \E env \in EmailEnvs, outcome \in SmtpOutcomes : SendEmail(env, outcome)
    \/ \E env \in TodoEnvs, outcome \in TodoOutcomes : CreateTodo(env, outcome)
    \/ \E env \in OutputEnvs : Finish(env)
    \/ NextRun
    \/ \E f \in {FileMissing, FileCorrupt} : LoseStateFile(f)
    \/ Kill

Spec == Init /\ [][Next]_vars

TypeOK ==
    /\ pc \in {"start", "check", "save", "email", "todo", "output", "exited"}
    /\ run \in 1..MaxRuns
    /\ exitCode \in {-1, 0, 1, 137}

\* ================================================================ claims
\* the WatchKey of the path that the pass is about to check
CurKey == generate_monitor_key(config[mi], config[mi].paths[pi])

\* the position is at a path whose key can be built
AtPath == pc = "check" /\ pi >= 1 /\ config[mi].hasBranch

\* C1: a key absent from the prior state, fetched with a commit in this
\* pass, is in the new state with a fetched sha and has no update event,
\* however often its path is reached in the run.
C1_FirstObservationSuppression ==
    pc = "save" =>
        \A k \in DOMAIN fetches :
            (k \notin DOMAIN prior /\ Succ(k) # {}) =>
                /\ k \in DOMAIN monitors_state
                /\ monitors_state[k].last_sha \in Succ(k)
                /\ EventsFor(k) = 0

\* every fetch that returns a sha B while the key stores A # B appends
\* exactly one event (A, B) for the key and stores B
C2_Step ==
    \A B \in Shas :
        (AtPath /\ CheckPath(B) /\ previous_sha_of(monitors_state, CurKey) # ""
                /\ previous_sha_of(monitors_state, CurKey) # B) =>
            /\ Len(updates') = Len(updates) + 1
            /\ SubSeq(updates', 1, Len(updates)) = updates
            /\ EventKey(updates'[Len(updates')]) = CurKey
            /\ updates'[Len(updates')].old_sha = monitors_state[CurKey].last_sha
            /\ updates'[Len(updates')].new_sha = B
            /\ monitors_state'[CurKey].last_sha = B

\* when check_for_updates returns: a key stored with A whose fetches of this
\* pass returned B # A has exactly one event, (A, B), and stores B
C2_Pass ==
    pc = "save" =>
        \A k \in DOMAIN prior : \A B \in Shas :
            (Succ(k) = {B} /\ prior[k].last_sha # B) =>
                /\ EventsFor(k) = 1
                /\ \A i \in DOMAIN updates :
                      EventKey(updates[i]) = k =>
                          /\ updates[i].old_sha = prior[k].last_sha
                          /\ updates[i].new_sha = B
                /\ monitors_state[k].last_sha = B

\* C2: change detection.  Prior identifier A and a fetch returning B # A
\* give exactly one update event with old_sha = A and new_sha = B, and the
\* new state stores B for the key.
C2_ChangeDetection == [][C2_Step /\ C2_Pass']_vars

C2_Witness ==
    /\ pc = "save"
    /\ \E k \in DOMAIN prior : \E B \in Shas :
          /\ Succ(k) = {B}
          /\ prior[k].last_sha # B
          /\ EventsFor(k) = 1
          /\ monitors_state[k].last_sha = B

\* a fetch that returns the stored sha changes neither updates nor any entry
C3_Step ==
    \A A \in Shas :
        (AtPath /\ CheckPath(A) /\ previous_sha_of(monitors_state, CurKey) = A) =>
            /\ updates' = updates
            /\ monitors_state' = monitors_state

\* when check_for_updates returns: a key whose fetches all returned the
\* stored sha has no event and its entry, last_check included, is untouched
C3_Pass ==
    pc = "save" =>
        \A k \in QuietKeys :
            EventsFor(k) = 0 /\ monitors_state[k] = prior[k]

\* two passes in a row, the state file kept in between, neither seeing a
\* remote change for the key: no event in either, and the same entry after both
C3_TwoRuns ==
    pc = "save" =>
        \A k \in QuietKeys \cap DOMAIN prevQuiet :
            prior[k] = prevQuiet[k].after =>
                /\ prevQuiet[k].events = 0
                /\ EventsFor(k) = 0
                /\ prevQuiet[k].after = prevQuiet[k].before
                /\ monitors_state[k] = prevQuiet[k].after

\* C3: no-change idempotence.  Prior identifier A and a fetch returning A
\* give zero events and leave the key's entry (last_sha and last_check) as it
\* was; two runs in a row without remote change give zero events both times
\* and the same entries.
C3_NoChangeIdempotence == [][C3_Step /\ C3_Pass' /\ C3_TwoRuns']_vars

C3_Witness ==
    /\ pc = "save"
    /\ run = 2
    /\ \E k \in QuietKeys \cap DOMAIN prevQuiet :
          /\ prior[k] = prevQuiet[k].after
          /\ prior[k].last_check < utcnow
          /\ FetchCount(k) >= 1

\* C4: at most one latest-commit fetch is issued per WatchKey in a run.
C4_OneFetchPerKey ==
    \A k \in DOMAIN fetches : FetchCount(k) <= 1

\* C5: the update list of a run holds at most one event per WatchKey.
C5_OneEventPerKey ==
    \A k \in DOMAIN fetches : EventsFor(k) <= 1

\* the configuration of the two-run scenario: {repo: "o/r", paths: ["f.txt"]}
C6Config == << Mon(TRUE, FALSE, "", TRUE, <<"f.txt">>) >>
C6Key == "o/r:main:f.txt"

\* C6: with the single monitor {repo: "o/r", paths: ["f.txt"]} the path is
\* checked under key "o/r:main:f.txt" and the run exits with status 0; from
\* empty state a fetch of aaa1111 gives no event and stores aaa1111, and a
\* following run fetching bbb2222 gives the one event aaa1111 -> bbb2222.
C6_DefaultBranchScenario ==
    (config = C6Config /\ pc = "exited" /\ ~Killed) =>
        /\ FetchCount(C6Key) = 1
        /\ exitCode = 0
        /\ (prior = NoEntries /\ Succ(C6Key) = {"aaa1111"}) =>
              /\ Len(updates) = 0
              /\ C6Key \in DOMAIN monitors_state
              /\ monitors_state[C6Key].last_sha = "aaa1111"
        /\ (C6Key \in DOMAIN prior /\ prior[C6Key].last_sha = "aaa1111"
              /\ Succ(C6Key) = {"bbb2222"}) =>
              /\ Len(updates) = 1
              /\ updates[1].old_sha = "aaa1111"
              /\ updates[1].new_sha = "bbb2222"

\* the only defect of the configuration is monitors without a repo field
OnlyRepoMissing ==
    /\ Len(config) > 0
    /\ \A i \in DOMAIN config : config[i].hasRepo => config[i].hasBranch

\* C7: a monitor without repo, enabled or not, is skipped: the pass still
\* goes through every monitor, fetches every path of every enabled monitor
\* that has a repo, and returns so that the state is saved.
C7_PerItemIsolation ==
    (pc = "exited" /\ ~Killed /\ OnlyRepoMissing) =>
        /\ PassComplete
        /\ \A i \in DOMAIN config :
              (config[i].enabled /\ config[i].hasRepo) =>
                  \A j \in DOMAIN config[i].paths :
                      FetchCount(generate_monitor_key(config[i],
                                                      config[i].paths[j])) >= 1

\* C8: the exit status is non-zero exactly when no monitor is configured.
C8_ExitStatus ==
    (pc = "exited" /\ ~Killed) => (exitCode # 0 <=> Len(config) = 0)

\* C9: a failing notification channel is only logged: after the email step
\* the To Do step is always reached, and a run in which a channel failed
\* exits with status 0.
C9_NotificationIsolation ==
    [][ ~Killed' =>
          /\ (pc = "email" => pc' = "todo")
          /\ ((pc' = "exited" /\ sendFailed') => exitCode' = 0) ]_vars

\* C10: a pass that started from a missing or unparseable state file returns
\* no update event (so that nothing is notified) and has a baseline entry for
\* every key fetched with a commit.  At "save" the file is still the one the
\* run started with.
C10_StateLossRecovery ==
    (pc = "save" /\ file.kind \in {"missing", "corrupt"}) =>
        /\ Len(updates) = 0
        /\ \A k \in DOMAIN fetches :
              Succ(k) # {} => k \in DOMAIN monitors_state

\* C11: with GITHUB_OUTPUT set, a run that completes appends exactly two
\* lines: has_updates, true exactly when there is an update event, and
\* update_count, the number of update events of the pass.
C11_SideChannelOutput ==
    [][ (pc = "output" /\ Finish("set")) =>
            /\ Len(output') = Len(output) + 2
            /\ SubSeq(output', 1, Len(output)) = output
            /\ output'[Len(output) + 1] =
                  (IF Len(updates) > 0 THEN "has_updates=true"
                                       ELSE "has_updates=false")
            /\ output'[Len(output) + 2] =
                  "update_count=" \o ToString(Len(updates)) ]_vars

C11_Witness ==
    /\ pc = "exited"
    /\ exitCode = 0
    /\ Len(updates) = 2
    /\ output = OutputBefore \o << "has_updates=true", "update_count=2" >>

\* shell-style matching of a whole path against the glob patterns in use
fnmatch(path, pattern) ==
    pattern = "f.*" /\ path = "f.txt"

\* unanchored regular-expression search for the patterns in use
re_search(pattern, path) ==
    pattern = "^g" /\ path = "g.txt"

RangeOf(seq) == { seq[i] : i \in DOMAIN seq }

\* the effective path set of a monitor: its literal paths, every tree path
\* matching one of its pathsGlob entries, every tree path matching one of
\* its pathsRegex entries
EffectivePaths(monitor) ==
    RangeOf(monitor.paths)
    \cup { p \in RangeOf(Tree) :
            \E g \in RangeOf(monitor.pathsGlob) : fnmatch(p, g) }
    \cup { p \in RangeOf(Tree) :
            \E x \in RangeOf(monitor.pathsRegex) : re_search(x, p) }

\* the monitors of the configuration that the pass has to check
Checkable(i) ==
    config[i].enabled /\ config[i].hasRepo /\ config[i].hasBranch

\* C12: when the pass returns, every path of an enabled monitor's effective
\* path set (literal, glob-derived, regex-derived) has been fetched, and is
\* in the state if a fetch returned a commit.
C12_PatternPathsWatched ==
    pc = "save" =>
        \A i \in DOMAIN config :
            Checkable(i) =>
                \A p \in EffectivePaths(config[i]) :
                    LET key == generate_monitor_key(config[i], p) IN
                    /\ FetchCount(key) >= 1
                    /\ (Succ(key) # {} => key \in DOMAIN monitors_state)

\* the paths a monitor is to be checked with once its template is applied:
\* its own when it has any, else those of the template it references
ResolvedPaths(monitor) ==
    IF Len(monitor.paths) > 0 \/ monitor.template = "" THEN monitor.paths
    ELSE Templates[monitor.template].paths

\* C13: when the pass returns, a monitor with branch "dev" referencing a
\* template with branch "main" has been checked under its own branch "dev"
\* (the key is built from the entry's branch), with the paths it inherits
\* from the template.
C13_TemplatePrecedence ==
    pc = "save" =>
        \A i \in DOMAIN config :
            (Checkable(i) /\ config[i].template # "") =>
                \A p \in RangeOf(ResolvedPaths(config[i])) :
                    FetchCount(generate_monitor_key(config[i], p)) >= 1

\* C14: a fetch that returns an error, or no commit, adds no update event,
\* leaves every snapshot entry as it was (an absent one stays absent), and
\* the pass goes on to the next path or monitor.
C14_SkippedPathsUntouched ==
    [][ \A r \in {"error", "empty"} :
          (AtPath /\ CheckPath(r)) =>
              /\ updates' = updates
              /\ monitors_state' = monitors_state
              /\ state' = state
              /\ pc' = "check"
              /\ <<mi', pi'>> \in {<<mi, pi + 1>>, <<mi + 1, 0>>} ]_vars

\* the pass has returned with a key that was fetched, never with a commit,
\* and is still absent, and with another key that it did record
C14_Witness ==
    /\ pc = "save"
    /\ \E k \in DOMAIN fetches :
          Succ(k) = {} /\ k \notin DOMAIN prior /\ k \notin DOMAIN monitors_state
    /\ \E k \in DOMAIN fetches : Succ(k) # {}

\* ---------------------------------------------------------------------
\* C15  Within one run the state file is read once, at the start, and
\* written at most once, after every monitor has been checked, with the
\* state the pass produced; no step of the pass itself, and no exception or
\* kill during it, changes the file, so an aborted pass leaves the file as
\* it was at the start.  (The only other change of the file is its loss
\* between runs.)
C15_SingleWriteAtEnd ==
    [][ run' = run =>
          /\ io'.reads # io.reads =>
                pc = "start" /\ io.reads = 0 /\ io'.reads = 1
          /\ io'.writes # io.writes =>
                /\ pc = "save" /\ PassComplete
                /\ io.writes = 0 /\ io'.writes = 1
                /\ file' = FileOf(state)
          /\ file' # file =>
                \/ pc = "start" /\ pc' = "start"
                \/ pc = "save" /\ io'.writes = 1
          /\ pc = "check" => file' = file ]_vars

\* a second run was killed after it read the file that the first run wrote
\* and before it wrote: the file still holds what the first run saved
C15_Witness ==
    /\ run = 2
    /\ Killed
    /\ io = [reads |-> 1, writes |-> 0]
    /\ file.kind = "json"
    /\ file.data.last_check = 1
    /\ DOMAIN file.data.monitors # {}

\* ---------------------------------------------------------------------
\* C16  Snapshot keys are never deleted: every WatchKey that the state held
\* before a pass is held by monitors_state throughout the pass and after
\* it, by the state object that main() saves, and by the file once it is
\* written, whether or not the configuration still refers to the key and
\* whether or not its monitor is enabled.
C16_KeysNeverDeleted ==
    /\ DOMAIN prior \subseteq DOMAIN monitors_state
    /\ pc \in {"save", "email", "todo", "output"} =>
          DOMAIN prior \subseteq DOMAIN state.monitors
    /\ (io.writes = 1 /\ ~Killed) =>
          /\ file.kind = "json"
          /\ DOMAIN prior \subseteq DOMAIN file.data.monitors

\* a run ended that never fetched a key it had stored and that added
\* another key: the file holds both, the stored entry as it was
C16_Witness ==
    /\ pc = "exited"
    /\ exitCode = 0
    /\ \E k \in DOMAIN prior :
          /\ FetchCount(k) = 0
          /\ \A i \in DOMAIN config :
                \A j \in DOMAIN config[i].paths :
                    generate_monitor_key(config[i], config[i].paths[j]) # k
          /\ file.data.monitors[k] = prior[k]
    /\ DOMAIN file.data.monitors # DOMAIN prior

\* the number of times the paths of enabled monitors name the key k
EnabledPaths(k) ==
    Cardinality(UNION {
        { <<i, j>> : j \in { n \in DOMAIN config[i].paths :
                               /\ config[i].enabled
                               /\ generate_monitor_key(config[i],
                                      config[i].paths[n]) = k } } :
        i \in DOMAIN config })

\* ---------------------------------------------------------------------
\* C17  Disabled monitors have no effect: the fetches issued for a key
\* are those of the enabled monitors that name it, never more, and exactly
\* those once the pass is complete; a key named by disabled monitors only
\* is never fetched, has no event, and its snapshot entry stays what it was
\* (or stays absent).
C17_DisabledNoEffect ==
    \A i \in DOMAIN config :
        ~config[i].enabled =>
            \A j \in DOMAIN config[i].paths :
                LET k == generate_monitor_key(config[i], config[i].paths[j])
                IN  /\ FetchCount(k) <= EnabledPaths(k)
                    /\ pc = "save" => FetchCount(k) = EnabledPaths(k)
                    /\ EnabledPaths(k) = 0 =>
                          /\ EventsFor(k) = 0
                          /\ IF k \in DOMAIN prior
                             THEN /\ k \in DOMAIN monitors_state
                                  /\ monitors_state[k] = prior[k]
                             ELSE k \notin DOMAIN monitors_state

\* a pass is complete that fetched for an enabled monitor and passed by a
\* disabled one whose key is stored
C17_Witness ==
    /\ pc = "save"
    /\ \E i \in DOMAIN config :
          /\ ~config[i].enabled
          /\ i < Len(config)
          /\ LET k == generate_monitor_key(config[i], config[i].paths[1])
             IN  k \in DOMAIN prior /\ EnabledPaths(k) = 0
    /\ \E k \in DOMAIN fetches : Succ(k) # {}

\* ---------------------------------------------------------------------
\* C18  Event chain: every update event has old_sha different from
\* new_sha, and for each WatchKey the old_sha of an event is the new_sha
\* of the event before it for that key: the one before it in the same
\* pass or, for the first event of a pass, the identifier last reported by
\* a saved run (the new_sha of its latest event, or the first-observation
\* baseline); a key first seen in this pass starts from the baseline that
\* one of its fetches returned.  Until a run saves, the identifier last
\* reported is the one of the change that the previous run saved.
C18_EventChain ==
    /\ io.writes = 0 =>
          \A k \in DOMAIN prevUnnotified :
              k \in DOMAIN lastId => lastId[k] = prevUnnotified[k]
    /\ io.writes = 0 =>
          \A i \in DOMAIN updates :
              LET e == updates[i]
                  k == EventKey(e)
                  before == { j \in 1..(i - 1) : EventKey(updates[j]) = k }
              IN  /\ e.old_sha # e.new_sha
                  /\ IF before # {}
                     THEN e.old_sha =
                            updates[CHOOSE j \in before :
                                       \A h \in before : h <= j].new_sha
                     ELSE IF k \in DOMAIN lastId
                          THEN e.old_sha = lastId[k]
                          ELSE e.old_sha \in Succ(k)

\* the second run's pass has two events for a key whose change the first
\* run reported: three links of one chain
C18_Witness ==
    /\ run = 2
    /\ pc = "save"
    /\ \E k \in DOMAIN prevUnnotified \cap DOMAIN lastId : EventsFor(k) = 2

\* ---------------------------------------------------------------------
\* C19  Notify at most once: a notification is attempted only when there
\* are updates and only after the state file was written with the state
\* of the pass; and when the previous run saved a change to B for a key
\* and every notification of it failed, a run whose fetches of that key
\* return only B has no event for the key, and a run with no event at all
\* attempts no notification.
C19_NotifyAtMostOnce ==
    /\ (pc \in {"email", "todo"} \/ emailTried \/ todoTried) =>
          /\ io.writes = 1
          /\ file = FileOf(state)
          /\ Len(updates) > 0
    /\ \A k \in DOMAIN prevUnnotified :
          Succ(k) \subseteq {prevUnnotified[k]} => EventsFor(k) = 0
    /\ Len(updates) = 0 => ~emailTried /\ ~todoTried

\* the run after an unnotified change to B fetched B again and ended with
\* no event and no notification attempt
C19_Witness ==
    /\ run = 2
    /\ pc = "exited"
    /\ exitCode = 0
    /\ \E k \in DOMAIN prevUnnotified : Succ(k) = {prevUnnotified[k]}
    /\ Len(updates) = 0
    /\ ~emailTried /\ ~todoTried

\* ====================================================== get_ms_token.py
\* what a client of localhost:8400 may send: a GET whose query has a code
\* parameter, a GET whose query has an error parameter and no code, and
\* any other request (another path without a query, another method)
RequestKinds == {"code", "error", "other"}

\* what input().strip() may return
ClientIds == {"", "app-id"}

\* what urlopen of the token endpoint may do
TokenOutcomes == {"tokens", "HTTPError", "URLError"}

\* check_updates.py is not running
MonitorIdle ==
    /\ config = <<>>
    /\ file = FileMissing
    /\ run = 1
    /\ pc = "start"
    /\ state = EmptyState
    /\ monitors_state = NoEntries
    /\ updates = <<>>
    /\ mi = 0
    /\ pi = 0
    /\ exitCode = -1
    /\ prior = NoEntries
    /\ fetches = NoEntries
    /\ emailTried = FALSE
    /\ todoTried = FALSE
    /\ sendFailed = FALSE
    /\ prevQuiet = NoEntries
    /\ output = OutputBefore
    /\ io = NoIO
    /\ lastId = NoEntries
    /\ notified = FALSE
    /\ prevUnnotified = NoEntries

TokenInit == MonitorIdle /\ TokenIdle

\* the socket of the HTTPServer is bound and listening
Bound == spc \in {"bound", "serving", "responding", "finished"}

\* main(), lines 147-155: read the client id; exit 1 when it is empty,
\* else start the daemon thread
main_input(c) ==
    /\ tpc = "input"
    /\ client_id' = c
    /\ IF c = ""
       THEN tpc' = "done" /\ texit' = 1 /\ UNCHANGED spc
       ELSE tpc' = "wait" /\ spc' = "bind" /\ UNCHANGED texit
    /\ UNCHANGED <<mvars, server_ready, auth_code, browser, pending, sent,
                   handled, exchanged>>

\* start_callback_server, line 96: HTTPServer(...) binds and listens, or
\* raises OSError (the port is taken) and the thread ends
HTTPServer_bind(ok) ==
    /\ spc = "bind"
    /\ tpc # "done"
    /\ spc' = IF ok THEN "bound" ELSE "failed"
    /\ UNCHANGED <<mvars, tpc, client_id, server_ready, auth_code, browser,
                   pending, sent, handled, exchanged, texit>>

\* start_callback_server, lines 97-98: server_ready.set(), then
\* handle_request() waits for a request
server_ready_set ==
    /\ spc = "bound"
    /\ tpc # "done"
    /\ server_ready' = TRUE
    /\ spc' = "serving"
    /\ UNCHANGED <<mvars, tpc, client_id, auth_code, browser, pending, sent,
                   handled, exchanged, texit>>

\* main(), line 156: server_ready.wait() returns once the event is set
main_wait ==
    /\ tpc = "wait"
    /\ server_ready
    /\ tpc' = "open"
    /\ UNCHANGED <<mvars, spc, client_id, server_ready, auth_code, browser,
                   pending, sent, handled, exchanged, texit>>

\* main(), lines 158-176: webbrowser.open(auth_url)
main_open_browser ==
    /\ tpc = "open"
    /\ browser' = TRUE
    /\ tpc' = "join"
    /\ UNCHANGED <<mvars, spc, client_id, server_ready, auth_code, pending,
                   sent, handled, exchanged, texit>>

\* some client (the browser redirected after consent, or anything else on
\* this host) sends a request to the listening port
ClientSends(kind) ==
    /\ Bound
    /\ tpc # "done"
    /\ sent < MaxRequests
    /\ sent' = sent + 1
    /\ pending' = Append(pending, kind)
    /\ UNCHANGED <<mvars, tpc, spc, client_id, server_ready, auth_code,
                   browser, handled, exchanged, texit>>

\* CallbackHandler.do_GET, lines 38-46 and 74-76, on the request that
\* handle_request accepted: auth_code is set when the query has a code
\* (a request of another method never reaches do_GET and sets nothing)
do_GET ==
    /\ spc = "serving"
    /\ tpc # "done"
    /\ pending # <<>>
    /\ handled' = Append(handled, Head(pending))
    /\ pending' = Tail(pending)
    /\ auth_code' = IF Head(pending) = "code" THEN "the-code" ELSE auth_code
    /\ spc' = "responding"
    /\ UNCHANGED <<mvars, tpc, client_id, server_ready, browser, sent,
                   exchanged, texit>>

\* a variant that goes on serving, as serve_forever would
handle_request_returns_serving ==
    /\ spc = "responding"
    /\ tpc # "done"
    /\ spc' = "serving"
    /\ UNCHANGED <<mvars, tpc, client_id, server_ready, auth_code, browser,
                   pending, sent, handled, exchanged, texit>>

\* do_GET, lines 47-73 and 76-88, writes the response; handle_request
\* returns, and with it start_callback_server (line 98): the thread ends
handle_request_returns ==
    /\ spc = "responding"
    /\ tpc # "done"
    /\ spc' = "finished"
    /\ UNCHANGED <<mvars, tpc, client_id, server_ready, auth_code, browser,
                   pending, sent, handled, exchanged, texit>>

\* main(), line 180: join returns because the thread has ended
main_join ==
    /\ tpc = "join"
    /\ spc = "finished"
    /\ tpc' = "test"
    /\ UNCHANGED <<mvars, spc, client_id, server_ready, auth_code, browser,
                   pending, sent, handled, exchanged, texit>>

\* main(), line 180: join returns because 300 seconds have passed
main_join_timeout ==
    /\ tpc = "join"
    /\ spc # "finished"
    /\ tpc' = "test"
    /\ UNCHANGED <<mvars, spc, client_id, server_ready, auth_code, browser,
                   pending, sent, handled, exchanged, texit>>

\* main(), lines 182-186: `if not auth_code: sys.exit(1)`
main_test ==
    /\ tpc = "test"
    /\ IF auth_code = ""
       THEN tpc' = "done" /\ texit' = 1
       ELSE tpc' = "exchange" /\ UNCHANGED texit
    /\ UNCHANGED <<mvars, spc, client_id, server_ready, auth_code, browser,
                   pending, sent, handled, exchanged>>

\* main(), lines 188-217: get_tokens(client_id, auth_code); HTTPError is
\* caught and exits 1, any other error is a traceback and exit status 1
get_tokens(outcome) ==
    /\ tpc = "exchange"
    /\ exchanged' = TRUE
    /\ tpc' = "done"
    /\ texit' = IF outcome = "tokens" THEN 0 ELSE 1
    /\ UNCHANGED <<mvars, spc, client_id, server_ready, auth_code, browser,
                   pending, sent, handled>>

TokenNext ==
    \/ \E c \in ClientIds : main_input(c)
    \/ \E ok \in BOOLEAN : HTTPServer_bind(ok)
    \/ server_ready_set
    \/ main_wait
    \/ main_open_browser
    \/ \E kind \in RequestKinds : ClientSends(kind)
    \/ do_GET
    \/ handle_request_returns
    \/ main_join
    \/ main_join_timeout
    \/ main_test
    \/ \E outcome \in TokenOutcomes : get_tokens(outcome)

TokenSpec == TokenInit /\ [][TokenNext]_vars

\* ---------------------------------------------------------------------
\* C20  One-shot OAuth callback: the browser is opened only after the
\* server thread has bound its port and set server_ready; the server
\* accepts at most one request; main calls get_tokens only if that one
\* request carried a code; and once the first request accepted carries no
\* code, no token is ever exchanged, whatever arrives later, and main can
\* only end with exit status 1.
C20_OneShotCallback ==
    /\ (browser \/ tpc \in {"open", "join", "test", "exchange"}) =>
          (server_ready /\ Bound)
    /\ server_ready => spc \in {"serving", "responding", "finished"}
    /\ Len(handled) <= 1
    /\ (tpc = "exchange" \/ exchanged) =>
          (handled = << "code" >> /\ auth_code # "")
    /\ (handled # <<>> /\ handled[1] # "code") =>
          /\ auth_code = ""
          /\ tpc # "exchange"
          /\ ~exchanged
          /\ tpc = "done" => texit = 1

\* the one request accepted was an error callback, a callback with a code
\* arrived after it and was never accepted, and main ended with status 1
\* without exchanging a token
C20_Witness ==
    /\ tpc = "done"
    /\ texit = 1
    /\ browser
    /\ handled = << "error" >>
    /\ pending = << "code" >>
    /\ ~exchanged
====
